---- MODULE Spec2Model ----
(***************************************************************************)
(* A model of todo.rs: the Task line format (render / parse), the          *)
(* file-backed TodoList of src/lib.rs, and the older copy of the same      *)
(* types that src/main.rs carries for the command-line program.            *)
(*                                                                         *)
(* Text is a sequence of one-character strings, so that rendering,         *)
(* line splitting and parsing are computed character by character.         *)
(***************************************************************************)
EXTENDS Integers, Sequences, FiniteSets, TLC

VARIABLES
    file,    \* the backing file: [exists |-> BOOLEAN, bytes |-> text]
    list,    \* TodoList.list of the live TodoList value (<<>> when there is none)
    pc,      \* "start" | "loaded" | "panicked" | "failed" : state of the process
    last,    \* record of the last call: its arguments, the state before it, its outcome
    build,   \* how the program was built: overflow checks, std's OpenOptions rules
    px,      \* scratch state of the pure-function specification (parse / render)
    stdout,  \* the lines printed since the last call that was not a print
    cli,     \* one run of the command-line program: its arguments and position
    race     \* two runs of the program over one file, each with its own list

vars == <<file, list, pc, last, build, px, stdout, cli, race>>

(***************************************************************************)
(* Bounds of the model.                                                    *)
(***************************************************************************)
MaxLen == 3          \* longest list the model builds
MaxInitLines == 2    \* lines of the file found at the first load
MaxRaceLines == 1    \* lines of the file the two processes start from
UsizeBits == 16      \* width of usize in the model (the code runs with 32 or 64)

(***************************************************************************)
(* Characters and small helpers.                                           *)
(***************************************************************************)
NL == "\n"
CR == "\r"
TAB == "\t"
SP == " "

Chars == {"-", SP, "[", "]", "x", "a", "b", NL, CR, TAB}

\* The characters of the alphabet that the regex class \s matches.
IsWhitespace(c) == c \in {SP, TAB, NL, CR}

Tail2(s, n) == SubSeq(s, n, Len(s))

SetMin(S) == CHOOSE m \in S : \A k \in S : m <= k

RECURSIVE Concat(_)
Concat(ss) == IF ss = <<>> THEN <<>> ELSE Head(ss) \o Concat(Tail(ss))

RECURSIVE Pow2(_)
Pow2(n) == IF n = 0 THEN 1 ELSE 2 * Pow2(n - 1)

(***************************************************************************)
(* Task (src/lib.rs 30-83).  The enum variant is the status.               *)
(***************************************************************************)
DoneTask(note) == [status |-> "Done", note |-> note]
TodoTask(note) == [status |-> "Todo", note |-> note]

\* Task::new: the note is taken as it is, whatever characters it holds.
Task_new(note) == TodoTask(note)

\* A check that toggles: a Done task goes back to Todo.
Task_toggle(t) == IF t.status = "Todo" THEN DoneTask(t.note) ELSE TodoTask(t.note)

Task_check(t) == IF t.status = "Todo" THEN DoneTask(t.note) ELSE t

Task_undo(t) == IF t.status = "Done" THEN TodoTask(t.note) ELSE t

\* A rendering that writes the Todo marker for both variants.
Debug_fmt_one_marker(t) == <<"-", SP, "[", SP, "]", SP>> \o t.note

\* impl fmt::Debug for Task: the persisted form of one task.
Debug_fmt(t) ==
    IF t.status = "Done"
    THEN <<"-", SP, "[", "x", "]", SP>> \o t.note
    ELSE <<"-", SP, "[", SP, "]", SP>> \o t.note

(***************************************************************************)
(* Parsing one line (impl FromStr for Task).                               *)
(***************************************************************************)
NoTask == [status |-> "None", note |-> <<>>]
Ok(t) == [kind |-> "Ok", task |-> t]
Err == [kind |-> "Err", task |-> NoTask]
Panic == [kind |-> "Panic", task |-> NoTask]

\* Regex ^- \[([\sx])\] (.*)$ : no multi-line flag, so ^ and $ are the ends of
\* the text, and . is any character but the line feed.
re_captures(s) ==
    IF /\ Len(s) >= 6
       /\ s[1] = "-" /\ s[2] = SP /\ s[3] = "["
       /\ (IsWhitespace(s[4]) \/ s[4] = "x")
       /\ s[5] = "]" /\ s[6] = SP
       /\ \A i \in 7..Len(s) : s[i] # NL
    THEN [matched |-> TRUE, g1 |-> s[4], g2 |-> Tail2(s, 7)]
    ELSE [matched |-> FALSE, g1 |-> "", g2 |-> <<>>]

\* src/lib.rs: an unknown status character is the error value.
from_str(s) ==
    LET cap == re_captures(s) IN
    IF cap.matched
    THEN IF cap.g1 = "x" THEN Ok(DoneTask(cap.g2))
         ELSE IF cap.g1 = SP THEN Ok(TodoTask(cap.g2))
         ELSE Err
    ELSE Err

\* src/main.rs: an unknown status character panics ("Unkown status").
main_from_str(s) ==
    LET cap == re_captures(s) IN
    IF cap.matched
    THEN IF cap.g1 = "x" THEN Ok(DoneTask(cap.g2))
         ELSE IF cap.g1 = SP THEN Ok(TodoTask(cap.g2))
         ELSE Panic
    ELSE Err

(***************************************************************************)
(* Reading and writing the file.                                           *)
(***************************************************************************)
\* Position of the first line feed of b, 0 when there is none.
first_nl(b) ==
    LET P == {i \in 1..Len(b) : b[i] = NL} IN IF P = {} THEN 0 ELSE SetMin(P)

\* Position of the last line feed of b, 0 when there is none.
last_nl(b) ==
    LET P == {i \in 1..Len(b) : b[i] = NL}
    IN IF P = {} THEN 0 ELSE CHOOSE m \in P : \A k \in P : k <= m

\* BufRead::lines: each item is the text up to the next line feed, without the
\* line feed and without a carriage return right before it; what follows the
\* last line feed is an item only when it is not empty.
strip_eol(raw) ==
    IF raw # <<>> /\ raw[Len(raw)] = NL
    THEN LET a == SubSeq(raw, 1, Len(raw) - 1) IN
         IF a # <<>> /\ a[Len(a)] = CR THEN SubSeq(a, 1, Len(a) - 1) ELSE a
    ELSE raw

RECURSIVE lines(_)
lines(b) ==
    IF b = <<>> THEN <<>>
    ELSE LET n == first_nl(b)
             raw == IF n = 0 THEN b ELSE SubSeq(b, 1, n)
             rest == IF n = 0 THEN <<>> ELSE Tail2(b, n + 1)
         IN <<strip_eol(raw)>> \o lines(rest)

\* writeln!(file, "{:?}", l)
writeln(t) == Debug_fmt(t) \o <<NL>>

\* What save writes: every task's line, in list order.
save_bytes(l) == Concat([i \in 1..Len(l) |-> writeln(l[i])])

\* An open that also truncates: the file is empty afterwards.
open_rw_truncate(f) == [exists |-> TRUE, bytes |-> <<>>]

\* OpenOptions read + write + create (src/lib.rs 142-146): a missing file is
\* created empty, an existing one is left as it is.
open_rw_create(f) == IF f.exists THEN f ELSE [exists |-> TRUE, bytes |-> <<>>]

\* OpenOptions truncate + create + write, then the writes (src/lib.rs 165-176).
save_file(l) == [exists |-> TRUE, bytes |-> save_bytes(l)]

\* The byte of a hole: what a file holds where nothing was written.
NUL == "<nul>"

\* The write calls of writeln!(file, "{:?}", t) on the unbuffered File: one
\* write_all for each piece the formatter emits, "- [x] " or "- [ ] ", the
\* note, the line feed; an empty piece makes no call.
task_writes(t) ==
    SelectSeq(<<SubSeq(Debug_fmt(t), 1, 6), t.note, <<NL>>>>,
              LAMBDA c : c # <<>>)

\* The write calls of one save, in order.
save_writes(l) == Concat([i \in 1..Len(l) |-> task_writes(l[i])])

\* A save's open without truncate: what is there stays.
open_keep(f) == [exists |-> TRUE, bytes |-> f.bytes]

\* The open of save (src/lib.rs 166-171): truncate + create + write.
open_trunc_create(f) == [exists |-> TRUE, bytes |-> <<>>]

\* write(2) of chunk c at offset off of a file holding b: the bytes there
\* are overwritten, the file grows as needed, a gap is filled with holes.
pwrite(b, off, c) ==
    LET n == IF Len(b) > off + Len(c) THEN Len(b) ELSE off + Len(c)
    IN [k \in 1..n |->
           IF k > off /\ k <= off + Len(c) THEN c[k - off]
           ELSE IF k <= Len(b) THEN b[k]
           ELSE NUL]

\* read(2) at offset off of a file holding b: all the bytes from there on
\* (the BufReader asks for more than any file here holds); none at the end.
pread(b, off) == IF off < Len(b) THEN SubSeq(b, off + 1, Len(b)) ELSE <<>>

(***************************************************************************)
(* usize arithmetic and Vec helpers.                                       *)
(***************************************************************************)
UsizeModulus == Pow2(UsizeBits)

\* index - 1 on usize: the value when overflow wraps.
wrapping_sub(a, b) == (a - b + UsizeModulus) % UsizeModulus

\* Whether index - 1 panics: only a build with overflow checks traps it.
sub_overflows(a, b) == a < b

\* Vec::swap_remove in place of Vec::remove: the last element takes the hole.
vec_swap_remove(v, i) ==
    IF i + 1 = Len(v) THEN SubSeq(v, 1, i)
    ELSE SubSeq(v, 1, i) \o <<v[Len(v)]>> \o SubSeq(v, i + 2, Len(v) - 1)

vec_remove(v, i) == SubSeq(v, 1, i) \o Tail2(v, i + 2)

\* An insert that ignores the position: the task goes to the front.
vec_insert_front(v, i, t) == <<t>> \o v

\* Vec::push in place of Vec::insert: the task goes to the end.
vec_push_at(v, i, t) == Append(v, t)

vec_insert(v, i, t) == SubSeq(v, 1, i) \o <<t>> \o Tail2(v, i + 1)

\* i is 0-based, as in the code.
vec_try_remove(v, i) ==
    IF i < Len(v)
    THEN [some |-> TRUE, removed |-> v[i + 1], v |-> vec_remove(v, i)]
    ELSE [some |-> FALSE, removed |-> NoTask, v |-> v]

\* retain with the test the wrong way round: the Done tasks stay.
vec_retain_done(v) == SelectSeq(v, LAMBDA t : t.status = "Done")

vec_retain_todo(v) == SelectSeq(v, LAMBDA t : t.status = "Todo")

(***************************************************************************)
(* Inputs.                                                                 *)
(***************************************************************************)
\* Notes given to add: empty, plain, with a line feed inside, ending in a
\* carriage return.
Notes == {<<>>, <<"a">>, <<"a", NL, "b">>, <<"a", CR>>}

Indexes == 0..(MaxLen + 1)

\* Lines a hand-edited file may hold.
FileLines ==
    { <<"-", SP, "[", SP, "]", SP, "a">>,
      <<"-", SP, "[", "x", "]", SP, "a">>,
      <<"-", SP, "[", TAB, "]", SP, "a">>,
      <<"-", SP, "[", SP, "]", SP, "a", CR>>,
      <<"a">>,
      <<>> }

RECURSIVE FilesOf(_)
FilesOf(n) ==
    IF n = 0 THEN {<<>>}
    ELSE LET S == FilesOf(n - 1) IN
         S \cup {f \o l \o <<NL>> : f \in S, l \in FileLines}

InitFiles ==
    {[exists |-> FALSE, bytes |-> <<>>]}
    \cup {[exists |-> TRUE, bytes |-> b] : b \in FilesOf(MaxInitLines)}
    \cup {[exists |-> TRUE, bytes |-> <<"-", SP, "[", "x", "]", SP>>]}

NoCall ==
    [op |-> "none", index |-> 0, note |-> <<>>, pre_list |-> <<>>,
     pre_file |-> [exists |-> FALSE, bytes |-> <<>>],
     outcome |-> "none", saved |-> FALSE, err_line |-> -1]

Call(op, index, note, outcome, saved, err_line) ==
    [op |-> op, index |-> index, note |-> note, pre_list |-> list,
     pre_file |-> file, outcome |-> outcome, saved |-> saved,
     err_line |-> err_line]

NoPx == [stage |-> "off", line |-> <<>>, task |-> NoTask, out |-> Err]

(***************************************************************************)
(* TodoList of src/lib.rs.                                                 *)
(***************************************************************************)
\* A reader that lets empty lines through.
bad_lines_skip_empty(ls) ==
    {i \in 0..(Len(ls) - 1) : ls[i + 1] # <<>> /\ from_str(ls[i + 1]).kind # "Ok"}

\* The lines that do not parse, by their 0-based position (enumerate()).
bad_lines(ls) == {i \in 0..(Len(ls) - 1) : from_str(ls[i + 1]).kind # "Ok"}

\* The reader's part of TodoList::load on the bytes of the opened file: every
\* line is parsed; the first line that does not parse panics with its
\* position ("Failed to parse line {i}").
read_list(b) ==
    LET ls == lines(b)
        bad == bad_lines(ls)
    IN IF bad = {}
       THEN [ok |-> TRUE, list |-> [i \in 1..Len(ls) |-> from_str(ls[i]).task],
             err_line |-> -1]
       ELSE [ok |-> FALSE, list |-> <<>>, err_line |-> SetMin(bad)]

\* TodoList::load: open (creating the file when it is missing), then read.
load ==
    LET opened == open_rw_create(file)
        r == read_list(opened.bytes)
    IN /\ file' = opened
       /\ list' = r.list
       /\ \/ /\ r.ok
             /\ pc' = "loaded"
             /\ last' = Call("load", 0, <<>>, "returned", FALSE, -1)
          \/ /\ ~r.ok
             /\ pc' = "panicked"
             /\ last' = Call("load", 0, <<>>, "panicked", FALSE, r.err_line)
       /\ UNCHANGED <<build, px>>

\* TodoList::modify followed by the return of the caller: the new list is
\* stored and saved.
modify(op, index, note, l2) ==
    /\ list' = l2
    /\ file' = save_file(l2)
    /\ last' = Call(op, index, note, "returned", TRUE, -1)
    /\ UNCHANGED <<pc, build, px>>

\* A call that returns without touching anything.
no_op(op, index) ==
    /\ last' = Call(op, index, <<>>, "returned", FALSE, -1)
    /\ UNCHANGED <<file, list, pc, build, px>>

\* index - 1 trapped by the overflow check: the process dies before the list
\* or the file is touched.
overflow_panic(op, index) ==
    /\ pc' = "panicked"
    /\ last' = Call(op, index, <<>>, "panicked", FALSE, -1)
    /\ UNCHANGED <<file, list, build, px>>

add(note) ==
    /\ pc = "loaded"
    /\ Len(list) < MaxLen
    /\ modify("add", 0, note, Append(list, Task_new(note)))

check(index) ==
    /\ pc = "loaded"
    /\ \/ /\ sub_overflows(index, 1) /\ build.overflow_checks
          /\ overflow_panic("check", index)
       \/ /\ ~(sub_overflows(index, 1) /\ build.overflow_checks)
          /\ LET i == wrapping_sub(index, 1)
                 r == vec_try_remove(list, i)
             IN \/ /\ r.some
                   /\ modify("check", index, <<>>,
                             vec_insert(r.v, i, Task_check(r.removed)))
                \/ /\ ~r.some
                   /\ no_op("check", index)

undo(index) ==
    /\ pc = "loaded"
    /\ \/ /\ sub_overflows(index, 1) /\ build.overflow_checks
          /\ overflow_panic("undo", index)
       \/ /\ ~(sub_overflows(index, 1) /\ build.overflow_checks)
          /\ LET i == wrapping_sub(index, 1)
                 r == vec_try_remove(list, i)
             IN \/ /\ r.some
                   /\ modify("undo", index, <<>>,
                             vec_insert(r.v, i, Task_undo(r.removed)))
                \/ /\ ~r.some
                   /\ no_op("undo", index)

remove(index) ==
    /\ pc = "loaded"
    /\ \/ /\ sub_overflows(index, 1) /\ build.overflow_checks
          /\ overflow_panic("remove", index)
       \/ /\ ~(sub_overflows(index, 1) /\ build.overflow_checks)
          /\ LET i == wrapping_sub(index, 1)
                 r == vec_try_remove(list, i)
             IN \/ /\ r.some
                   /\ modify("remove", index, <<>>, r.v)
                \/ /\ ~r.some
                   /\ no_op("remove", index)

cleanup ==
    /\ pc = "loaded"
    /\ modify("cleanup", 0, <<>>, vec_retain_todo(list))

clear ==
    /\ pc = "loaded"
    /\ modify("clear", 0, <<>>, <<>>)

(***************************************************************************)
(* Listing (src/lib.rs 54-61, 110-125, 230-239).  A printed line is kept   *)
(* as its number and its text; the colours are part of the glyph token.    *)
(***************************************************************************)
GreenCheck == "<green-check>"
RedCross == "<red-cross>"

\* impl fmt::Display for Task: the glyph, a space, the note.
Display_fmt(t) ==
    IF t.status = "Done" THEN <<GreenCheck, SP>> \o t.note
    ELSE <<RedCross, SP>> \o t.note

\* iter.enumerate(): every item with its 0-based position.
enumerate(l) == [k \in 1..Len(l) |-> [i |-> k - 1, t |-> l[k]]]

\* println!(" {} {}", dimmed(format!("{}.", i + 1)), t)
println_item(p) == [index |-> p.i + 1, text |-> Display_fmt(p.t)]

\* filter_print_lines: enumerate first, filter second, print what is left.
\* The closure f is given by the set of statuses it lets through.
filter_print_lines(l, f) ==
    LET kept == SelectSeq(enumerate(l), LAMBDA p : p.t.status \in f) IN
    [k \in 1..Len(kept) |-> println_item(kept[k])]

\* |t| match t { Task::TodoTask(_) => true, _ => false }
is_todo(t) == t.status = "Todo"

\* A listing that filters first and numbers what is left.
unchecked_lines_renumbered(l) ==
    filter_print_lines(SelectSeq(l, is_todo), {"Todo", "Done"})

\* What print_unchecked prints for a list.
unchecked_lines(l) == filter_print_lines(l, {"Todo"})

\* What print_all prints for a list.
all_lines(l) == filter_print_lines(l, {"Todo", "Done"})

print_unchecked ==
    /\ pc = "loaded"
    /\ stdout' = unchecked_lines(list)
    /\ last' = Call("print_unchecked", 0, <<>>, "returned", FALSE, -1)
    /\ UNCHANGED <<file, list, pc, build, px>>

print_all ==
    /\ pc = "loaded"
    /\ stdout' = all_lines(list)
    /\ last' = Call("print_all", 0, <<>>, "returned", FALSE, -1)
    /\ UNCHANGED <<file, list, pc, build, px>>

(***************************************************************************)
(* State of the parts a specification does not use.                        *)
(***************************************************************************)
NoArg == <<"<none>">>

NoCli ==
    [step |-> "off", task |-> NoArg, sub |-> "none", all |-> FALSE,
     index_ok |-> TRUE, index |-> 0, saves |-> 0, loaded |-> FALSE,
     exit |-> "none", file0 |-> [exists |-> FALSE, bytes |-> <<>>]]

NoRace ==
    [on |-> FALSE, pc |-> <<"off", "off">>, list |-> <<<<>>, <<>>>>,
     note |-> <<<<>>, <<>>>>, loaded |-> <<<<>>, <<>>>>, seen |-> <<0, 0>>,
     off |-> <<0, 0>>, buf |-> <<<<>>, <<>>>>, todo |-> <<<<>>, <<>>>>,
     opened |-> <<>>, order |-> <<>>, overlap |-> FALSE]

\* A call that prints nothing: what was printed before is no longer the
\* output of the last call.
Quiet == stdout' = <<>> /\ UNCHANGED <<cli, race>>

(***************************************************************************)
(* The library specification: a file is found (or not), a TodoList is      *)
(* loaded from it, and its methods are called in any order.  A load at any *)
(* later point is a new TodoList over the same path.                       *)
(***************************************************************************)
Builds == [overflow_checks : BOOLEAN, create_needs_write : {TRUE}]

Init ==
    /\ file \in InitFiles
    /\ list = <<>>
    /\ pc = "start"
    /\ last = NoCall
    /\ build \in Builds
    /\ px = NoPx
    /\ stdout = <<>>
    /\ cli = NoCli
    /\ race = NoRace

Next ==
    \/ load /\ Quiet
    \/ \E note \in Notes : add(note) /\ Quiet
    \/ \E index \in Indexes : check(index) /\ Quiet
    \/ \E index \in Indexes : undo(index) /\ Quiet
    \/ \E index \in Indexes : remove(index) /\ Quiet
    \/ cleanup /\ Quiet
    \/ clear /\ Quiet
    \/ print_unchecked /\ UNCHANGED <<cli, race>>
    \/ print_all /\ UNCHANGED <<cli, race>>

Spec == Init /\ [][Next]_vars

(***************************************************************************)
(* TodoList of src/main.rs, the copy the command-line program runs.        *)
(***************************************************************************)
\* OpenOptions read + create, without write (src/main.rs 136-139).  A std
\* that validates the options refuses create without write or append access
\* (InvalidInput), whether or not the file is there; an older std passes
\* O_RDONLY|O_CREAT to open(2), which creates a missing file.
main_open(f, b) ==
    IF b.create_needs_write
    THEN [ok |-> FALSE, file |-> f]
    ELSE [ok |-> TRUE, file |-> open_rw_create(f)]

\* The reader of src/main.rs 143-147: s.parse::<Task>().unwrap() on every
\* line; a line that does not parse panics, and no position is reported.
main_read_list(b) ==
    LET ls == lines(b)
        bad == {i \in 0..(Len(ls) - 1) : main_from_str(ls[i + 1]).kind # "Ok"}
    IN IF bad = {}
       THEN [ok |-> TRUE,
             list |-> [i \in 1..Len(ls) |-> main_from_str(ls[i]).task]]
       ELSE [ok |-> FALSE, list |-> <<>>]

main_load ==
    LET o == main_open(file, build)
        r == main_read_list(o.file.bytes)
    IN /\ file' = o.file
       /\ \/ /\ ~o.ok
             /\ list' = <<>>
             /\ pc' = "failed"
             /\ last' = Call("load", 0, <<>>, "err", FALSE, -1)
          \/ /\ o.ok /\ r.ok
             /\ list' = r.list
             /\ pc' = "loaded"
             /\ last' = Call("load", 0, <<>>, "returned", FALSE, -1)
          \/ /\ o.ok /\ ~r.ok
             /\ list' = <<>>
             /\ pc' = "panicked"
             /\ last' = Call("load", 0, <<>>, "panicked", FALSE, -1)
       /\ UNCHANGED <<build, px>>

\* self.save() and the return of the method (src/main.rs 155-166).
main_save(op, index, note, l2) ==
    /\ list' = l2
    /\ file' = [exists |-> TRUE, bytes |-> save_bytes(l2)]
    /\ last' = Call(op, index, note, "returned", TRUE, -1)
    /\ UNCHANGED <<pc, build, px>>

check_vec_bounds(v, index) == index < Len(v)

main_add(note) ==
    /\ pc = "loaded"
    /\ Len(list) < MaxLen
    /\ main_save("add", 0, note, Append(list, Task_new(note)))

main_check(index) ==
    /\ pc = "loaded"
    /\ \/ /\ sub_overflows(index, 1) /\ build.overflow_checks
          /\ overflow_panic("check", index)
       \/ /\ ~(sub_overflows(index, 1) /\ build.overflow_checks)
          /\ LET i == wrapping_sub(index, 1) IN
             \/ /\ check_vec_bounds(list, i)
                /\ main_save("check", index, <<>>,
                             vec_insert(vec_remove(list, i), i,
                                        Task_check(list[i + 1])))
             \/ /\ ~check_vec_bounds(list, i)
                /\ no_op("check", index)

main_undo(index) ==
    /\ pc = "loaded"
    /\ \/ /\ sub_overflows(index, 1) /\ build.overflow_checks
          /\ overflow_panic("undo", index)
       \/ /\ ~(sub_overflows(index, 1) /\ build.overflow_checks)
          /\ LET i == wrapping_sub(index, 1) IN
             \/ /\ check_vec_bounds(list, i)
                /\ main_save("undo", index, <<>>,
                             vec_insert(vec_remove(list, i), i,
                                        Task_undo(list[i + 1])))
             \/ /\ ~check_vec_bounds(list, i)
                /\ no_op("undo", index)

main_remove(index) ==
    /\ pc = "loaded"
    /\ \/ /\ sub_overflows(index, 1) /\ build.overflow_checks
          /\ overflow_panic("remove", index)
       \/ /\ ~(sub_overflows(index, 1) /\ build.overflow_checks)
          /\ LET i == wrapping_sub(index, 1) IN
             \/ /\ check_vec_bounds(list, i)
                /\ main_save("remove", index, <<>>, vec_remove(list, i))
             \/ /\ ~check_vec_bounds(list, i)
                /\ no_op("remove", index)

main_cleanup ==
    /\ pc = "loaded"
    /\ main_save("cleanup", 0, <<>>, vec_retain_todo(list))

main_clear ==
    /\ pc = "loaded"
    /\ main_save("clear", 0, <<>>, <<>>)

MainBuilds == [overflow_checks : BOOLEAN, create_needs_write : BOOLEAN]

MainInit ==
    /\ file \in InitFiles
    /\ list = <<>>
    /\ pc = "start"
    /\ last = NoCall
    /\ build \in MainBuilds
    /\ px = NoPx
    /\ stdout = <<>>
    /\ cli = NoCli
    /\ race = NoRace

MainNext ==
    \/ main_load /\ Quiet
    \/ \E note \in Notes : main_add(note) /\ Quiet
    \/ \E index \in Indexes : main_check(index) /\ Quiet
    \/ \E index \in Indexes : main_undo(index) /\ Quiet
    \/ \E index \in Indexes : main_remove(index) /\ Quiet
    \/ main_cleanup /\ Quiet
    \/ main_clear /\ Quiet

SpecMain == MainInit /\ [][MainNext]_vars

(***************************************************************************)
(* The pure functions on their own: a line is parsed (by either parser),   *)
(* or a task is rendered and the rendering parsed back.                    *)
(***************************************************************************)
\* Lines around the scaffold "- [s] ": every status character, each scaffold
\* character right or wrong, followed by a note; and the short lines.
ParseNotes == {<<>>, <<"a">>, <<SP>>, <<"a", CR>>, <<"a", NL, "b">>, <<"x", "]", SP>>}

ParseLines ==
    { <<c1, c2, c3, c4, c5, c6>> \o n :
        c1 \in {"-", "a"}, c2 \in {SP, "x"}, c3 \in {"[", "]"}, c4 \in Chars,
        c5 \in {"]", "["}, c6 \in {SP, TAB}, n \in ParseNotes }
    \cup { <<SP>> \o <<"-", SP, "[", c4, "]", SP>> \o n : c4 \in Chars, n \in ParseNotes }
    \cup { SubSeq(<<"-", SP, "[", "x", "]", SP>>, 1, k) : k \in 0..5 }

ParseTasks ==
    {[status |-> st, note |-> n] : st \in {"Done", "Todo"}, n \in ParseNotes}

ParseInit ==
    /\ file = [exists |-> FALSE, bytes |-> <<>>]
    /\ list = <<>>
    /\ pc = "start"
    /\ last = NoCall
    /\ build = [overflow_checks |-> FALSE, create_needs_write |-> TRUE]
    /\ stdout = <<>>
    /\ cli = NoCli
    /\ race = NoRace
    /\ px \in {[stage |-> "line", line |-> l, task |-> NoTask, out |-> Err] :
                   l \in ParseLines}
              \cup {[stage |-> "task", line |-> <<>>, task |-> t, out |-> Err] :
                   t \in ParseTasks}

\* s.parse::<Task>() with the parser of src/lib.rs.
parse_line ==
    /\ px.stage = "line"
    /\ px' = [px EXCEPT !.stage = "parsed", !.out = from_str(px.line)]
    /\ UNCHANGED <<file, list, pc, last, build>>

\* s.parse::<Task>() with the parser of src/main.rs.
main_parse_line ==
    /\ px.stage = "line"
    /\ px' = [px EXCEPT !.stage = "main_parsed", !.out = main_from_str(px.line)]
    /\ UNCHANGED <<file, list, pc, last, build>>

\* format!("{:?}", task).parse::<Task>()
render_parse ==
    /\ px.stage = "task"
    /\ px' = [px EXCEPT !.stage = "roundtrip", !.line = Debug_fmt(px.task),
                        !.out = from_str(Debug_fmt(px.task))]
    /\ UNCHANGED <<file, list, pc, last, build>>

ParseNext ==
    \/ parse_line /\ UNCHANGED <<stdout, cli, race>>
    \/ main_parse_line /\ UNCHANGED <<stdout, cli, race>>
    \/ render_parse /\ UNCHANGED <<stdout, cli, race>>

SpecParse == ParseInit /\ [][ParseNext]_vars

(***************************************************************************)
(* The command-line program (src/main.rs 229-291): one run is load, add    *)
(* when the positional task text is given, the subcommand when one is      *)
(* given, and the listing of the unchecked tasks.                          *)
(***************************************************************************)
\* What clap hands to main: the task text and a subcommand may both be
\* there (the text comes first on the command line); with neither, clap
\* ends the run before anything is loaded, so that case is not a run here.
\* index_ok is whether the index argument parses as usize.
CliRuns ==
    {[step |-> "load", task |-> t, sub |-> sc, all |-> a, index_ok |-> ok,
      index |-> ix, saves |-> 0, loaded |-> FALSE, exit |-> "none",
      file0 |-> f] :
        t \in {NoArg} \cup Notes,
        sc \in {"none", "ls", "remove", "check", "undo", "cleanup", "clear"},
        a \in BOOLEAN, ok \in BOOLEAN, ix \in Indexes, f \in InitFiles}

WithIndex(sc) == sc \in {"remove", "check", "undo"}

\* The runs, each written one way: a flag or an index only where the
\* subcommand takes it.
IsCliRun(c) ==
    /\ ~(c.task = NoArg /\ c.sub = "none")
    /\ (c.all => c.sub = "ls")
    /\ (~WithIndex(c.sub) => (c.index_ok /\ c.index = 0))
    /\ (~c.index_ok => c.index = 0)

\* let mut todo_list = TodoList::load(path).unwrap();
cli_load ==
    /\ cli.step = "load"
    /\ main_load
    /\ cli' = [cli EXCEPT !.step = IF pc' = "loaded" THEN "add" ELSE "exit",
                          !.loaded = (pc' = "loaded"),
                          !.exit = IF pc' = "loaded" THEN "none" ELSE "panic"]
    /\ UNCHANGED <<stdout, race>>

\* if let Some(task) = args.value_of("task") { todo_list.add(task); }
cli_add ==
    /\ cli.step = "add"
    /\ \/ /\ cli.task # NoArg
          /\ main_add(cli.task)
          /\ cli' = [cli EXCEPT !.step = "sub", !.saves = @ + 1]
       \/ /\ cli.task = NoArg
          /\ cli' = [cli EXCEPT !.step = "sub"]
          /\ UNCHANGED <<file, list, pc, last, build, px>>
    /\ UNCHANGED <<stdout, race>>

\* print_unchecked of src/main.rs 213-221, as a call.
main_print_unchecked ==
    /\ stdout' = unchecked_lines(list)
    /\ last' = Call("print_unchecked", 0, <<>>, "returned", FALSE, -1)
    /\ UNCHANGED <<file, list, pc, build, px>>

\* print_all of src/main.rs 223-225, as a call.
main_print_all ==
    /\ stdout' = all_lines(list)
    /\ last' = Call("print_all", 0, <<>>, "returned", FALSE, -1)
    /\ UNCHANGED <<file, list, pc, build, px>>

\* After a method with an index: a panic ends the run, a return goes on to
\* the listing; a save is counted.
after_indexed ==
    cli' = [cli EXCEPT !.step = IF pc' = "panicked" THEN "exit" ELSE "print",
                       !.exit = IF pc' = "panicked" THEN "panic" ELSE "none",
                       !.saves = IF last'.saved THEN @ + 1 ELSE @]

\* match args.subcommand() { ... }
cli_sub ==
    /\ cli.step = "sub"
    /\ \/ /\ cli.sub = "ls" /\ cli.all
          /\ main_print_all
          /\ cli' = [cli EXCEPT !.step = "exit", !.exit = "ok"]
       \/ /\ (cli.sub = "ls" /\ ~cli.all) \/ cli.sub = "none"
          /\ cli' = [cli EXCEPT !.step = "print"]
          /\ UNCHANGED <<file, list, pc, last, build, px, stdout>>
       \/ /\ cli.sub = "cleanup"
          /\ main_cleanup
          /\ cli' = [cli EXCEPT !.step = "print", !.saves = @ + 1]
          /\ UNCHANGED stdout
       \/ /\ cli.sub = "clear"
          /\ main_clear
          /\ cli' = [cli EXCEPT !.step = "print", !.saves = @ + 1]
          /\ UNCHANGED stdout
       \/ /\ WithIndex(cli.sub) /\ ~cli.index_ok
          /\ cli' = [cli EXCEPT !.step = "exit", !.exit = "usage"]
          /\ last' = Call("value_t_or_exit", 0, <<>>, "exited", FALSE, -1)
          /\ UNCHANGED <<file, list, pc, build, px, stdout>>
       \/ /\ cli.sub = "remove" /\ cli.index_ok
          /\ main_remove(cli.index)
          /\ after_indexed
          /\ UNCHANGED stdout
       \/ /\ cli.sub = "check" /\ cli.index_ok
          /\ main_check(cli.index)
          /\ after_indexed
          /\ UNCHANGED stdout
       \/ /\ cli.sub = "undo" /\ cli.index_ok
          /\ main_undo(cli.index)
          /\ after_indexed
          /\ UNCHANGED stdout
    /\ UNCHANGED race

\* todo_list.print_unchecked(); and the end of main.
cli_print ==
    /\ cli.step = "print"
    /\ main_print_unchecked
    /\ cli' = [cli EXCEPT !.step = "exit", !.exit = "ok"]
    /\ UNCHANGED race

CliInit ==
    /\ file \in InitFiles
    /\ list = <<>>
    /\ pc = "start"
    /\ last = NoCall
    /\ build \in MainBuilds
    /\ px = NoPx
    /\ stdout = <<>>
    /\ cli \in {c \in CliRuns : IsCliRun(c) /\ c.file0 = file}
    /\ race = NoRace

CliNext == cli_load \/ cli_add \/ cli_sub \/ cli_print

SpecCli == CliInit /\ [][CliNext]_vars

(***************************************************************************)
(* Two runs of the library against one file (src/lib.rs 141-188): each     *)
(* process has its own TodoList, loads it, and adds a task.  Nothing locks *)
(* the file, so the system calls of the two interleave freely: a step is   *)
(* one open, one read or one write.  Each process has its own file offset  *)
(* race.off[p].  race.buf[p] is the line p's reader has begun, race.todo[p] *)
(* the writes its save still has to do, race.loaded[p] the list it loaded. *)
(* race.opened is the order in which the saves opened the file,            *)
(* race.order the order in which they finished, race.seen[p] the number of *)
(* saves that had opened the file when p's load ended, and race.overlap    *)
(* whether a save opened the file while the other save was writing.        *)
(***************************************************************************)
Procs == {1, 2}

Other(p) == 3 - p

RaceFiles == {f \in InitFiles : Len(lines(f.bytes)) <= MaxRaceLines}

\* TodoList::load in process p, the open: read + write + create.
race_open(p) ==
    /\ race.on
    /\ race.pc[p] = "start"
    /\ file' = open_rw_create(file)
    /\ race' = [race EXCEPT !.pc[p] = "reading", !.off[p] = 0, !.buf[p] = <<>>]
    /\ UNCHANGED <<list, pc, last, build, px, stdout, cli>>

\* TodoList::load in process p, one read of the BufReader and the lines it
\* completes.  race.buf[p] is the line begun and not yet ended, race.list[p]
\* the tasks parsed so far.
\*  - A read that returns bytes: the lines ended by a line feed in what is
\*    pending are parsed one after the other; the rest stays pending.
\*  - A read that returns none while a line is pending ends that line: it
\*    is parsed, and the reader reads again.
\*  - A read that returns none with no line pending ends the load.
\* A line that does not parse panics at once.
race_read(p) ==
    LET c == pread(file.bytes, race.off[p])
        all == race.buf[p] \o c
        n == last_nl(all)
        r == IF c = <<>> THEN read_list(all) ELSE read_list(SubSeq(all, 1, n))
        rest == IF c = <<>> THEN <<>> ELSE Tail2(all, n + 1)
    IN /\ race.on
       /\ race.pc[p] = "reading"
       /\ \/ /\ c # <<>> \/ race.buf[p] # <<>>
             /\ r.ok
             /\ race' = [race EXCEPT !.buf[p] = rest,
                                     !.off[p] = @ + Len(c),
                                     !.list[p] = @ \o r.list]
          \/ /\ c # <<>> \/ race.buf[p] # <<>>
             /\ ~r.ok
             /\ race' = [race EXCEPT !.pc[p] = "panicked",
                                     !.list[p] = <<>>,
                                     !.buf[p] = <<>>,
                                     !.off[p] = 0]
          \/ /\ c = <<>> /\ race.buf[p] = <<>>
             /\ race' = [race EXCEPT !.pc[p] = "loaded",
                                     !.loaded[p] = race.list[p],
                                     !.seen[p] = Len(race.opened),
                                     !.off[p] = 0]
       /\ UNCHANGED <<file, list, pc, last, build, px, stdout, cli>>

\* TodoList::add in process p up to the open of save: push onto its own
\* list, then open with truncate.
race_add(p) ==
    LET l2 == Append(race.list[p], Task_new(race.note[p]))
    IN /\ race.on
       /\ race.pc[p] = "loaded"
       /\ file' = open_trunc_create(file)
       /\ race' = [race EXCEPT
                      !.pc[p] = "writing",
                      !.list[p] = l2,
                      !.off[p] = 0,
                      !.todo[p] = save_writes(l2),
                      !.opened = Append(@, p),
                      !.overlap = @ \/ race.pc[Other(p)] = "writing"]
       /\ UNCHANGED <<list, pc, last, build, px, stdout, cli>>

\* One write of p's save; after the last one add returns.
race_write(p) ==
    LET c == Head(race.todo[p])
        rest == Tail(race.todo[p])
    IN /\ race.on
       /\ race.pc[p] = "writing"
       /\ file' = [exists |-> TRUE,
                   bytes |-> pwrite(file.bytes, race.off[p], c)]
       /\ race' = [race EXCEPT
                      !.todo[p] = rest,
                      !.off[p] = IF rest = <<>> THEN 0 ELSE @ + Len(c),
                      !.pc[p] = IF rest = <<>> THEN "done" ELSE "writing",
                      !.order = IF rest = <<>> THEN Append(@, p) ELSE @]
       /\ UNCHANGED <<list, pc, last, build, px, stdout, cli>>

RaceInit ==
    /\ file \in RaceFiles
    /\ list = <<>>
    /\ pc = "start"
    /\ last = NoCall
    /\ build = [overflow_checks |-> FALSE, create_needs_write |-> TRUE]
    /\ px = NoPx
    /\ stdout = <<>>
    /\ cli = NoCli
    /\ race \in {[NoRace EXCEPT !.on = TRUE, !.pc = <<"start", "start">>,
                                !.note = <<n1, n2>>] :
                    n1 \in Notes, n2 \in Notes}

RaceNext ==
    \/ \E p \in Procs : race_open(p)
    \/ \E p \in Procs : race_read(p)
    \/ \E p \in Procs : race_add(p)
    \/ \E p \in Procs : race_write(p)

SpecRace == RaceInit /\ [][RaceNext]_vars

(***************************************************************************)
(* The file format as the specification states it, independently of the    *)
(* parser: "- [" STATUS "] " NOTE, STATUS "x" or " ", NOTE without a line  *)
(* break.                                                                  *)
(***************************************************************************)
HasLF(s) == \E i \in 1..Len(s) : s[i] = NL

HasLineBreak(s) == \E i \in 1..Len(s) : s[i] \in {NL, CR}

Grammar(s) ==
    /\ Len(s) >= 6
    /\ SubSeq(s, 1, 3) = <<"-", SP, "[">>
    /\ s[4] \in {"x", SP}
    /\ SubSeq(s, 5, 6) = <<"]", SP>>
    /\ ~HasLF(Tail2(s, 7))

GrammarTask(s) ==
    [status |-> IF s[4] = "x" THEN "Done" ELSE "Todo", note |-> Tail2(s, 7)]

\* The text cut at its line feeds; an unterminated rest is a last item.
RECURSIVE SplitLF(_)
SplitLF(b) ==
    IF b = <<>> THEN <<>>
    ELSE LET n == first_nl(b) IN
         IF n = 0 THEN <<b>>
         ELSE <<SubSeq(b, 1, n - 1)>> \o SplitLF(Tail2(b, n + 1))

Mutating == {"add", "check", "undo", "remove", "cleanup", "clear"}

InRange(index, l) == 1 <= index /\ index <= Len(l)

(***************************************************************************)
(* C1.  After a mutating call has returned (having saved), the file is one *)
(* line per task of the list, in list order, each line the persisted form  *)
(* of its task and followed by a line feed: as many lines as tasks.        *)
(* Fails: add stores a note with a line feed in it, and save then writes   *)
(* more lines than there are tasks.                                        *)
(***************************************************************************)
C1_FileIsOneLinePerTask ==
    (last.op \in Mutating /\ last.outcome = "returned" /\ last.saved) =>
        /\ file.exists
        /\ (file.bytes = <<>> \/ file.bytes[Len(file.bytes)] = NL)
        /\ SplitLF(file.bytes) = [i \in 1..Len(list) |-> Debug_fmt(list[i])]

(***************************************************************************)
(* C2.  check, undo and remove with index 0 or index > length return       *)
(* without an error or abort, leave the list as it was, do not save and    *)
(* leave the file as it was.                                               *)
(* Fails: with overflow checks on, index - 1 panics for index 0.           *)
(***************************************************************************)
C2_OutOfRangeIsSilentNoOp ==
    (/\ last.op \in {"check", "undo", "remove"}
     /\ ~InRange(last.index, last.pre_list)) =>
        /\ last.outcome = "returned"
        /\ pc = "loaded"
        /\ list = last.pre_list
        /\ ~last.saved
        /\ file = last.pre_file

(***************************************************************************)
(* C3.  After add(note) with a note that has no line break has returned,   *)
(* loading the path again gives a list equal to the list in memory, whose  *)
(* last entry is the Todo task with that note.                             *)
(* Fails: a task added earlier with a line feed in its note makes the      *)
(* file unreadable (or read as other tasks).                               *)
(***************************************************************************)
C3_AddThenReload ==
    (last.op = "add" /\ last.outcome = "returned" /\ ~HasLineBreak(last.note)) =>
        LET r == read_list(open_rw_create(file).bytes) IN
        /\ r.ok
        /\ r.list = list
        /\ list # <<>>
        /\ list[Len(list)] = TodoTask(last.note)

(***************************************************************************)
(* C4.  For both statuses and every note without a line feed (the empty    *)
(* note too), parsing the persisted form of a task succeeds and gives the  *)
(* same status and the same note.                                          *)
(***************************************************************************)
C4_ParseRenderRoundTrip ==
    (px.stage = "roundtrip" /\ ~HasLF(px.task.note)) =>
        /\ px.out.kind = "Ok"
        /\ px.out.task.status = px.task.status
        /\ px.out.task.note = px.task.note

C4_Witness ==
    /\ px.stage = "roundtrip"
    /\ px.task = DoneTask(<<"x", "]", SP>>)
    /\ px.out = Ok(px.task)

(***************************************************************************)
(* C5.  load on a path with no file does not fail: it creates an empty     *)
(* file there and returns a TodoList with an empty list.                   *)
(* Fails for the load of src/main.rs, which asks for create without write  *)
(* access: std refuses that with InvalidInput and no file is created.      *)
(***************************************************************************)
C5_LoadCreatesMissingFile ==
    (last.op = "load" /\ ~last.pre_file.exists) =>
        /\ last.outcome = "returned"
        /\ pc = "loaded"
        /\ file = [exists |-> TRUE, bytes |-> <<>>]
        /\ list = <<>>

(***************************************************************************)
(* C6.  If a line of the file does not match the task grammar, load        *)
(* panics; the panic names the 0-based position of the first such line, no *)
(* TodoList exists afterwards (so no method can be called), and the file   *)
(* is as it was.                                                           *)
(***************************************************************************)
C6_StrictLoad ==
    last.op = "load" =>
        LET ls == lines(last.pre_file.bytes)
            Bad == {i \in 1..Len(ls) : ~Grammar(ls[i])}
        IN Bad # {} =>
            /\ last.outcome = "panicked"
            /\ pc = "panicked"
            /\ list = <<>>
            /\ file = last.pre_file
            /\ last.err_line = SetMin(Bad) - 1

C6_Witness ==
    /\ last.op = "load"
    /\ last.outcome = "panicked"
    /\ last.err_line = 1
    /\ Grammar(lines(last.pre_file.bytes)[1])
    /\ lines(last.pre_file.bytes)[2] = <<"a">>

(***************************************************************************)
(* C7.  On load, empty lines are skipped: a file whose lines are each      *)
(* empty or a task line loads, and the list holds the tasks of the         *)
(* non-empty lines.                                                        *)
(* Fails: the empty line is parsed like any other and load panics.         *)
(***************************************************************************)
C7_EmptyLinesSkipped ==
    (/\ last.op = "load"
     /\ \A i \in 1..Len(lines(last.pre_file.bytes)) :
            \/ lines(last.pre_file.bytes)[i] = <<>>
            \/ Grammar(lines(last.pre_file.bytes)[i])) =>
        LET kept == SelectSeq(lines(last.pre_file.bytes), LAMBDA l : l # <<>>) IN
        /\ last.outcome = "returned"
        /\ list = [i \in 1..Len(kept) |-> GrammarTask(kept[i])]

(***************************************************************************)
(* C8.  Parsing accepts exactly the lines "- [" STATUS "] " NOTE with      *)
(* STATUS "x" (Done) or one space (Todo); every other line is rejected     *)
(* with the error value, never accepted and never by a panic.              *)
(* Fails for the parser of src/main.rs, which panics on a status that is   *)
(* whitespace but not a space.                                             *)
(***************************************************************************)
C8_ParseAcceptsExactlyGrammar ==
    px.stage \in {"parsed", "main_parsed"} =>
        px.out = IF Grammar(px.line) THEN Ok(GrammarTask(px.line)) ELSE Err

(***************************************************************************)
(* C9.  For 1 <= index <= length, check(index) (undo(index)) returns, sets *)
(* the status of the task at that position to Done (Todo) and keeps its    *)
(* note; the length and every other task are unchanged; the list is saved. *)
(***************************************************************************)
C9_CheckUndoInPlace ==
    (/\ last.op \in {"check", "undo"}
     /\ InRange(last.index, last.pre_list)) =>
        /\ last.outcome = "returned"
        /\ Len(list) = Len(last.pre_list)
        /\ list[last.index].status = (IF last.op = "check" THEN "Done" ELSE "Todo")
        /\ list[last.index].note = last.pre_list[last.index].note
        /\ \A j \in 1..Len(list) : j # last.index => list[j] = last.pre_list[j]
        /\ last.saved
        /\ file = [exists |-> TRUE, bytes |-> save_bytes(list)]

C9_Witness ==
    /\ last.op = "check"
    /\ last.index = 2
    /\ Len(last.pre_list) = 3
    /\ last.pre_list[2].status = "Todo"
    /\ last.pre_list[3].status = "Done"
    /\ list[2].status = "Done"

(***************************************************************************)
(* C10.  For 1 <= index <= length, remove(index) returns with the list one *)
(* shorter: the tasks before the position are where they were, every task  *)
(* after it is one position lower, unchanged; the list is saved.           *)
(***************************************************************************)
C10_RemoveShifts ==
    (/\ last.op = "remove"
     /\ InRange(last.index, last.pre_list)) =>
        /\ last.outcome = "returned"
        /\ Len(list) = Len(last.pre_list) - 1
        /\ \A j \in 1..(last.index - 1) : list[j] = last.pre_list[j]
        /\ \A j \in last.index..Len(list) : list[j] = last.pre_list[j + 1]
        /\ last.saved
        /\ file = [exists |-> TRUE, bytes |-> save_bytes(list)]

C10_Witness ==
    /\ last.op = "remove"
    /\ last.index = 1
    /\ Len(last.pre_list) = 3
    /\ last.pre_list[2] # last.pre_list[3]
    /\ last.pre_list[1] # last.pre_list[2]
    /\ list = Tail(last.pre_list)

(***************************************************************************)
(* C11.  cleanup returns with exactly the Todo tasks of the list before,   *)
(* in their order, and the file is rewritten with that list, whether or    *)
(* not a task was removed.                                                 *)
(***************************************************************************)
RECURSIVE TodoOnly(_)
TodoOnly(l) ==
    IF l = <<>> THEN <<>>
    ELSE IF Head(l).status = "Todo" THEN <<Head(l)>> \o TodoOnly(Tail(l))
    ELSE TodoOnly(Tail(l))

C11_CleanupKeepsTodoInOrder ==
    last.op = "cleanup" =>
        /\ last.outcome = "returned"
        /\ list = TodoOnly(last.pre_list)
        /\ \A i \in 1..Len(list) : list[i].status = "Todo"
        /\ last.saved
        /\ file = [exists |-> TRUE, bytes |-> save_bytes(list)]

C11_Witness ==
    /\ last.op = "cleanup"
    /\ Len(last.pre_list) = 3
    /\ last.pre_list[1].status = "Todo"
    /\ last.pre_list[2].status = "Done"
    /\ last.pre_list[3].status = "Todo"
    /\ last.pre_list[1] # last.pre_list[3]
    /\ list = <<last.pre_list[1], last.pre_list[3]>>

(***************************************************************************)
(* C12.  check and undo at an index in range never fail and are            *)
(* idempotent: a second application right after the first leaves list and  *)
(* file as they are.  As claimed, checking a task that is already Done (or *)
(* undoing one that is already Todo) changes nothing, the file included.   *)
(* Fails: the call saves, and a file that was not written by save (no      *)
(* final line feed, CRLF line ends) is rewritten with other bytes.         *)
(***************************************************************************)
TargetStatus == IF last.op = "check" THEN "Done" ELSE "Todo"

AlreadyThere ==
    /\ last.op \in {"check", "undo"}
    /\ InRange(last.index, last.pre_list)
    /\ last.pre_list[last.index].status = TargetStatus

\* A step that applies the operation of the last call again, same index.
AppliedAgain ==
    /\ last.op \in {"check", "undo"}
    /\ last.outcome = "returned"
    /\ InRange(last.index, last.pre_list)
    /\ last'.op = last.op
    /\ last'.index = last.index
    /\ last'.pre_list = list
    /\ last'.pre_file = file

NeverFails ==
    (last.op \in {"check", "undo"} /\ InRange(last.index, last.pre_list)) =>
        last.outcome = "returned"

C12_IdempotentChangesNothing ==
    /\ [](NeverFails)
    /\ [](AlreadyThere => (list = last.pre_list /\ file = last.pre_file))
    /\ [][AppliedAgain => (list' = list /\ file' = file)]_vars

\* C12 as amended: on a task already in the target status the list is
\* unchanged and the file is rewritten with the image of the list, which is
\* the file as it was whenever the file was the image of the list before.
C12_IdempotentListAndImage ==
    /\ [](NeverFails)
    /\ [](AlreadyThere =>
            /\ list = last.pre_list
            /\ file = [exists |-> TRUE, bytes |-> save_bytes(list)]
            /\ (last.pre_file.bytes = save_bytes(last.pre_list) =>
                    file = last.pre_file))
    /\ [][AppliedAgain => (list' = list /\ file' = file)]_vars

C12_Witness ==
    /\ AlreadyThere
    /\ last.op = "check"
    /\ Len(list) = 2
    /\ last.index = 2
    /\ last.pre_file.bytes = save_bytes(last.pre_list)
    /\ file = last.pre_file

(***************************************************************************)
(* C13.  print_unchecked prints, in list order, one line for each Todo     *)
(* task and none for a Done task, each with the task's 1-based position in *)
(* the whole list; print_all prints every task with the same numbers.      *)
(***************************************************************************)
C13_ListingKeepsFullListNumbers ==
    /\ last.op = "print_unchecked" =>
        /\ \A k \in 1..Len(stdout) :
              /\ stdout[k].index \in 1..Len(list)
              /\ list[stdout[k].index].status = "Todo"
              /\ stdout[k].text = <<RedCross, SP>> \o list[stdout[k].index].note
        /\ \A k \in 1..(Len(stdout) - 1) : stdout[k].index < stdout[k + 1].index
        /\ \A i \in 1..Len(list) :
              list[i].status = "Todo" => \E k \in 1..Len(stdout) : stdout[k].index = i
    /\ last.op = "print_all" =>
        /\ Len(stdout) = Len(list)
        /\ \A k \in 1..Len(stdout) :
              /\ stdout[k].index = k
              /\ stdout[k].text =
                    <<IF list[k].status = "Done" THEN GreenCheck ELSE RedCross, SP>>
                    \o list[k].note

C13_Witness ==
    /\ last.op = "print_unchecked"
    /\ Len(list) = 3
    /\ list[1].status = "Todo" /\ list[2].status = "Done" /\ list[3].status = "Todo"
    /\ Len(stdout) = 2
    /\ stdout[2].index = 3

(***************************************************************************)
(* C14.  A run that loaded ends with the listing of the unchecked tasks of *)
(* the list as it then stands; only `ls --all` ends otherwise, with the    *)
(* listing of all tasks and without any save.                              *)
(* Fails: index 0 aborts a build with overflow checks (C2), an index that  *)
(* is no number ends the run at value_t_or_exit, and task text given       *)
(* together with `ls --all` is added first.                                *)
(***************************************************************************)
C14_RunEndsWithUncheckedListing ==
    (cli.step = "exit" /\ cli.loaded) =>
        IF cli.sub = "ls" /\ cli.all
        THEN /\ last.op = "print_all"
             /\ stdout = all_lines(list)
             /\ cli.saves = 0
        ELSE /\ last.op = "print_unchecked"
             /\ stdout = unchecked_lines(list)

(***************************************************************************)
(* C15.  One run performs at most one mutating operation, whatever task    *)
(* text and subcommand it is given.                                        *)
(* Fails: with task text and a subcommand, main adds and then runs the     *)
(* subcommand.                                                             *)
(***************************************************************************)
C15_AtMostOneMutationPerRun == cli.saves <= 1

(***************************************************************************)
(* C16.  Two processes, no locking: when both have loaded before either    *)
(* save opened the file and both adds have returned, both loaded the same  *)
(* list, and the file never holds both added tasks: it is no longer than   *)
(* the longer of the two lists' images.  When moreover the later save      *)
(* opened the file after the earlier one had finished, the file is the     *)
(* image of the later saver's list alone, what it loaded plus its own      *)
(* task: the task the earlier saver added is not in the file.              *)
(***************************************************************************)
BothDone == race.on /\ race.pc = <<"done", "done">>

BothLoadedFirst == race.seen = <<0, 0>>

C16_LaterSaveOverwritesEarlier ==
    (BothDone /\ BothLoadedFirst) =>
        LET w == race.opened[2]
            e == race.opened[1]
            iw == save_bytes(race.list[w])
            ie == save_bytes(race.list[e])
        IN /\ race.loaded[w] = race.loaded[e]
           /\ race.list[e] = Append(race.loaded[e], Task_new(race.note[e]))
           /\ race.list[w] = Append(race.loaded[w], Task_new(race.note[w]))
           /\ Len(file.bytes) <= (IF Len(iw) > Len(ie) THEN Len(iw) ELSE Len(ie))
           /\ file # save_file(Append(race.list[e], Task_new(race.note[w])))
           /\ file # save_file(Append(race.list[w], Task_new(race.note[e])))
           /\ ~race.overlap =>
                  /\ race.order = race.opened
                  /\ file = save_file(race.list[w])

C16_Witness ==
    /\ BothDone /\ BothLoadedFirst
    /\ ~race.overlap
    /\ race.order = <<1, 2>>
    /\ race.note = <<<<>>, <<"a">>>>
    /\ Len(race.loaded[1]) = 1
    /\ read_list(file.bytes).ok
    /\ read_list(file.bytes).list = Append(race.loaded[2], TodoTask(<<"a">>))
    /\ Len(read_list(file.bytes).list) = 2

(***************************************************************************)
(* C17.  add never stores a note with a line break in it as it was given,  *)
(* and after any mutating call the saved file loads back to the list.      *)
(* Fails: Task::new takes any text and add pushes it unchanged.            *)
(***************************************************************************)
C17_AddRejectsLineBreak ==
    /\ (last.op = "add" /\ last.outcome = "returned" /\ HasLineBreak(last.note))
           => list[Len(list)].note # last.note
    /\ (last.op \in Mutating /\ last.saved) =>
           /\ Len(lines(file.bytes)) = Len(list)
           /\ read_list(file.bytes).ok
           /\ read_list(file.bytes).list = list

(***************************************************************************)
(* C18.  A call changes no note and no relative order: the tasks that were *)
(* in the list before the call and are still there are a subsequence of    *)
(* the list before; add only appends; a status differs only at the index   *)
(* given to check or undo; the list gets shorter only by remove (by the    *)
(* task at the index), by cleanup (by the Done tasks) and by clear.        *)
(***************************************************************************)
RECURSIVE IsSubseq(_, _)
IsSubseq(a, b) ==
    IF a = <<>> THEN TRUE
    ELSE IF b = <<>> THEN FALSE
    ELSE IF Head(a) = Head(b) THEN IsSubseq(Tail(a), Tail(b))
    ELSE IsSubseq(a, Tail(b))

NotesOf(l) == [k \in 1..Len(l) |-> l[k].note]

\* The tasks of the list that were there before the last call.
Survivors ==
    IF last.op = "add" /\ last.outcome = "returned"
    THEN SubSeq(list, 1, Len(list) - 1)
    ELSE list

C18_NotesAndOrderFixed ==
    (last.op \in Mutating \cup {"print_unchecked", "print_all"}) =>
        LET pre == last.pre_list
            now == Survivors
        IN /\ IsSubseq(NotesOf(now), NotesOf(pre))
           /\ (last.op = "add" /\ last.outcome = "returned") =>
                  /\ Len(list) = Len(pre) + 1
                  /\ list[Len(list)] = TodoTask(last.note)
           /\ (last.op \notin {"remove", "cleanup", "clear"}) =>
                  /\ Len(now) = Len(pre)
                  /\ \A k \in 1..Len(pre) :
                        /\ now[k].note = pre[k].note
                        /\ (now[k].status # pre[k].status) =>
                               (last.op \in {"check", "undo"} /\ k = last.index)
           /\ (last.op = "remove") =>
                  /\ IsSubseq(now, pre)
                  /\ Len(now) >= Len(pre) - 1
                  /\ (Len(now) < Len(pre)) =>
                         /\ InRange(last.index, pre)
                         /\ now = SubSeq(pre, 1, last.index - 1)
                                   \o SubSeq(pre, last.index + 1, Len(pre))
           /\ (last.op = "cleanup") =>
                  /\ IsSubseq(now, pre)
                  /\ Len(now) = Len(SelectSeq(pre, is_todo))
           /\ (Len(now) < Len(pre) /\ last.op # "clear") =>
                  IsSubseq(now, pre)

C18_Witness ==
    /\ last.op = "undo" /\ last.index = 2 /\ last.outcome = "returned"
    /\ Len(last.pre_list) = 3
    /\ last.pre_list[1] = DoneTask(<<>>)
    /\ last.pre_list[2] = DoneTask(<<"a">>)
    /\ last.pre_list[3].note = <<"a", CR>>
    /\ list = [last.pre_list EXCEPT ![2] = TodoTask(<<"a">>)]

(***************************************************************************)
(* C19.  As long as a run of the program has not saved, an existing file   *)
(* is byte for byte what it was when the run began: load, the listings and *)
(* check, undo and remove with an index out of range do not write.         *)
(***************************************************************************)
C19_FileUntouchedWithoutSave ==
    (cli.step # "off" /\ cli.file0.exists /\ cli.saves = 0) => file = cli.file0

C19_Witness ==
    /\ cli.step = "exit" /\ cli.exit = "ok" /\ cli.loaded
    /\ cli.sub = "check" /\ cli.index = Len(list) + 1
    /\ Len(list) = 2
    /\ cli.saves = 0
    /\ cli.file0.exists
    /\ file = cli.file0
    /\ stdout = unchecked_lines(list)

====
